---- MODULE Spec2Model ----
(***************************************************************************)
(* A model of exchange_monitor.py: the reply-command parser                *)
(* (_parse_adjustment_commands), the applier (_apply_adjustments) and the  *)
(* cycle of monitor().                                                     *)
(*                                                                         *)
(* Python dicts are functions whose DOMAIN is the set of keys present, so  *)
(* a missing key and an empty dict are what they are in the program.       *)
(* Numbers are integers (the thresholds and rates of the model have no     *)
(* fractional part).                                                       *)
(***************************************************************************)
EXTENDS Integers, Sequences, FiniteSets, TLC

VARIABLES
    file,             \* config.yaml: [ok, currencies]
    config,           \* self.config["currencies"]
    adjustments,      \* the list handed to _apply_adjustments (the live records)
    owner,            \* owner[j]: the cell whose dict IS adjustments[j]["conditions"]
    pos,              \* position of the loop "for adjustment in adjustments"
    config_modified,  \* the local flag of _apply_adjustments
    pc,               \* position in monitor()
    inbox,            \* the mailbox: messages [body, reply, seen]
    rates,            \* what _parse_rates returned in this cycle
    alerts,           \* all_alerts of this cycle
    cycle,            \* the number of the run of monitor()
    events,           \* history: what this cycle did to its collaborators, in order
    parsed,           \* history: the list as it was returned by the parser
    start,            \* history: the currencies as loaded at the start of the cycle
    once              \* history: the currencies as a first call of
                      \* _apply_adjustments left them, when the list is applied again

vars == <<file, config, adjustments, owner, pos, config_modified, pc,
          inbox, rates, alerts, cycle, events, parsed, start, once>>

(***************************************************************************)
(* Bounds of the model.                                                    *)
(***************************************************************************)
MaxAdj == 3
MaxMsgs == 2
MaxCycles == 2

(***************************************************************************)
(* Dicts.                                                                  *)
(***************************************************************************)
EmptyDict == <<>>

Put(d, k, v) == [x \in (DOMAIN d) \cup {k} |-> IF x = k THEN v ELSE d[x]]

Del(d, k) == [x \in (DOMAIN d) \ {k} |-> d[x]]

\* d1.update(d2), key by key
Update(d1, d2) == [x \in (DOMAIN d1) \cup (DOMAIN d2) |->
                      IF x \in DOMAIN d2 THEN d2[x] ELSE d1[x]]

RateTypes == {"spot_buying_rate", "cash_buying_rate",
              "spot_selling_rate", "cash_selling_rate"}

NoCell == <<0, "">>

(***************************************************************************)
(* _apply_adjustments: one iteration of its loop.                          *)
(***************************************************************************)

\* lines 352-358: the index of the first entry with this code, 0 for None
FindCurrencyDefault(cfg, code) ==
    IF \E k \in 1..Len(cfg) : cfg[k].code = code
    THEN CHOOSE k \in 1..Len(cfg) :
            /\ cfg[k].code = code
            /\ \A m \in 1..(k-1) : cfg[m].code # code
    ELSE 1

FindCurrencyLast(cfg, code) ==
    IF \E k \in 1..Len(cfg) : cfg[k].code = code
    THEN CHOOSE k \in 1..Len(cfg) :
            /\ cfg[k].code = code
            /\ \A m \in (k+1)..Len(cfg) : cfg[m].code # code
    ELSE 0

FindCurrency(cfg, code) ==
    IF \E k \in 1..Len(cfg) : cfg[k].code = code
    THEN CHOOSE k \in 1..Len(cfg) :
            /\ cfg[k].code = code
            /\ \A m \in 1..(k-1) : cfg[m].code # code
    ELSE 0

\* lines 365-369: the conditions map with the rate type's container ensured
EnsureConditions(entry, rt) ==
    LET conds == IF entry.hasConditions THEN entry.conditions ELSE EmptyDict
    IN  IF rt \in DOMAIN conds THEN conds ELSE Put(conds, rt, EmptyDict)

\* lines 373-374: each field of the patch overwrites the Condition's field
AdjustReplaces(cond, patch) == patch

AdjustCondition(cond, patch) == Update(cond, patch)

\* line 380: the Condition becomes the adjustment's own dict
SetMerges(cond, replacement) == Update(cond, replacement)

SetCondition(cond, replacement) == replacement

\* lines 387-388: del of the named field when it is there
RemoveToNull(cond, ct) ==
    IF ct \in DOMAIN cond THEN [cond EXCEPT ![ct] = 0] ELSE cond

RemoveCondition(cond, ct) ==
    IF ct \in DOMAIN cond THEN Del(cond, ct) ELSE cond

\* lines 376, 382, 390: whether this adjustment sets config_modified
ModifiesAlways(adj, cond) == TRUE

Modifies(adj, cond) ==
    CASE adj.action = "adjust" -> DOMAIN adj.conditions # {}
      [] adj.action = "set"    -> TRUE
      [] adj.action = "remove" -> adj.condition_type \in DOMAIN cond
      [] OTHER                 -> FALSE

\* the Condition of the cell after the adjustment
NewCondition(adj, cond) ==
    CASE adj.action = "adjust" -> AdjustCondition(cond, adj.conditions)
      [] adj.action = "set"    -> SetCondition(cond, adj.conditions)
      [] adj.action = "remove" -> RemoveCondition(cond, adj.condition_type)
      [] OTHER                 -> cond

\* the live records after a write to the cell: a dict shared with a record is
\* changed in the record too (line 380 stores the record's dict, not a copy)
WriteThrough(adjs, own, cell, cond) ==
    [j \in 1..Len(adjs) |->
        IF own[j] = cell THEN [adjs[j] EXCEPT !.conditions = cond] ELSE adjs[j]]

\* which record's dict each cell holds after adjustment p was applied to cell
NewOwner(adjs, own, p, cell) ==
    [j \in 1..Len(adjs) |->
        IF adjs[p].action = "set"
        THEN (IF j = p THEN cell ELSE IF own[j] = cell THEN NoCell ELSE own[j])
        ELSE own[j]]

\* line 345: the record the loop is at
CurrentAdjustmentReversed(adjs, p) == adjs[Len(adjs) + 1 - p]

CurrentAdjustment(adjs, p) == adjs[p]

\* lines 345-390
ApplyStep ==
    /\ pc = "apply"
    /\ pos <= Len(adjustments)
    /\ LET adj == CurrentAdjustment(adjustments, pos)
           k   == FindCurrency(config, adj.currency_code)
       IN  IF k = 0
           THEN UNCHANGED <<config, adjustments, owner, config_modified>>
           ELSE LET rt    == adj.rate_type
                    conds == EnsureConditions(config[k], rt)
                    cond  == NewCondition(adj, conds[rt])
                    cell  == <<k, rt>>
                IN  /\ config' = [config EXCEPT
                                     ![k].hasConditions = TRUE,
                                     ![k].conditions = Put(conds, rt, cond)]
                    /\ adjustments' =
                          IF adj.action = "set" THEN adjustments
                          ELSE WriteThrough(adjustments, owner, cell, cond)
                    /\ owner' = NewOwner(adjustments, owner, pos, cell)
                    /\ config_modified' =
                          (config_modified \/ Modifies(adj, conds[rt]))
    /\ pos' = pos + 1
    /\ UNCHANGED <<file, pc, inbox, rates, alerts, cycle, events, parsed,
                   start, once>>

Event(what) == [what |-> what, records |-> <<>>, alerts |-> <<>>]

\* line 395: whether _save_config is called
ShouldSave(flag) == flag

\* lines 395-398 and 400-407: save when modified, then return the flag.
\* open() may fail before the file is touched; a failing dump leaves the
\* truncated file behind.
FinishApply ==
    /\ pc = "apply"
    /\ pos > Len(adjustments)
    /\ IF ShouldSave(config_modified)
       THEN \/ /\ file' = [ok |-> TRUE, currencies |-> config]
               /\ events' = Append(events, Event("save"))
            \/ /\ file' = file
               /\ events' = Append(events, Event("save_failed"))
            \/ /\ file' = [file EXCEPT !.ok = FALSE]
               /\ events' = Append(events, Event("save_failed"))
       ELSE UNCHANGED <<file, events>>
    /\ pc' = "applied"
    /\ UNCHANGED <<config, adjustments, owner, pos, config_modified,
                   inbox, rates, alerts, cycle, parsed, start, once>>

(***************************************************************************)
(* Inputs of the applier specification.                                    *)
(***************************************************************************)
Cond(S, lo, hi) == [x \in S |-> IF x = "min" THEN lo ELSE hi]

Adjust(code, rt, c) ==
    [action |-> "adjust", currency_code |-> code, rate_type |-> rt,
     conditions |-> c, condition_type |-> ""]

Set(code, rt, c) ==
    [action |-> "set", currency_code |-> code, rate_type |-> rt,
     conditions |-> c, condition_type |-> ""]

Remove(code, rt, ct) ==
    [action |-> "remove", currency_code |-> code, rate_type |-> rt,
     conditions |-> EmptyDict, condition_type |-> ct]

Entry(name, code, has, conds) ==
    [name |-> name, code |-> code, hasConditions |-> has, conditions |-> conds]


Spot == "spot_buying_rate"
Cash == "cash_buying_rate"

\* config.yaml as the user may have written it: the second one has an entry
\* without the key "conditions" and two entries with the same code
Configs ==
    { << Entry("US Dollar", "USD", TRUE, (Spot :> Cond({"min", "max"}, 10, 100))),
         Entry("Yen", "JPY", TRUE, (Spot :> Cond({"max"}, 0, 200))) >>,
      << Entry("US Dollar", "USD", TRUE,
               (Spot :> Cond({"min"}, 20, 0)) @@ (Cash :> Cond({"max"}, 0, 200))),
         Entry("Yen", "JPY", FALSE, EmptyDict),
         Entry("Dollar 2", "USD", TRUE, (Spot :> Cond({"max"}, 0, 200))) >> }

\* what the parser can return: adjust and set records carry a non-empty dict
Muts ==
    { Adjust("USD", Spot, Cond({"min"}, 10, 0)),
      Adjust("USD", Spot, Cond({"min", "max"}, 30, 300)),
      Set("USD", Spot, Cond({"max"}, 0, 100)),
      Set("USD", Spot, Cond({"min"}, 30, 0)),
      Remove("USD", Spot, "min"),
      Remove("USD", Spot, "max"),
      Adjust("USD", Cash, Cond({"min"}, 10, 0)),
      Remove("USD", Cash, "min"),
      Set("JPY", Spot, Cond({"min", "max"}, 10, 100)),
      Remove("JPY", Spot, "max"),
      Adjust("XXX", Spot, Cond({"min"}, 10, 0)) }

NotYet == [done |-> FALSE, currencies |-> <<>>]

Lists == UNION { [1..n -> Muts] : n \in 0..MaxAdj }

InitApply ==
    /\ config \in Configs
    /\ file = [ok |-> TRUE, currencies |-> config]
    /\ adjustments \in Lists
    /\ owner = [j \in 1..Len(adjustments) |-> NoCell]
    /\ pos = 1
    /\ config_modified = FALSE
    /\ pc = "apply"
    /\ parsed = adjustments
    /\ start = config
    /\ inbox = <<>>
    /\ rates = EmptyDict
    /\ alerts = <<>>
    /\ cycle = 1
    /\ events = <<>>
    /\ once = NotYet

NextApply == ApplyStep \/ FinishApply

SpecApply == InitApply /\ [][NextApply]_vars

(***************************************************************************)
(* _apply_adjustments called a second time with the same list: the records *)
(* are the objects that the first call left, with the dicts it shared with *)
(* the configuration.                                                      *)
(***************************************************************************)
ApplyAgain ==
    /\ pc = "applied"
    /\ ~once.done
    /\ once' = [done |-> TRUE, currencies |-> config]
    /\ pc' = "apply"
    /\ pos' = 1
    /\ config_modified' = FALSE
    /\ UNCHANGED <<file, config, adjustments, owner, inbox, rates, alerts,
                   cycle, events, parsed, start>>

NextTwice == ApplyStep \/ FinishApply \/ ApplyAgain

SpecTwice == InitApply /\ [][NextTwice]_vars


(***************************************************************************)
(* _parse_adjustment_commands.  A body is the sequence of its whitespace-  *)
(* separated tokens, each separated from the next by one whitespace        *)
(* character.  The patterns are searched without anchors and ignoring      *)
(* case, so a keyword matches at the end of a token, the code and the rate *)
(* type are whole tokens of word characters, a bound is the token min or   *)
(* max followed by a token of digits and dots, and REMOVE takes a token    *)
(* that begins with min or max.                                            *)
(***************************************************************************)

\* the tokens of the model: <<token, upper(), lower(), \w+, [\d.]+>>
TokenTable ==
    { <<"ADJUST", "ADJUST", "adjust", TRUE, FALSE>>,
      <<"adjust", "ADJUST", "adjust", TRUE, FALSE>>,
      <<"SET", "SET", "set", TRUE, FALSE>>,
      <<"RESET", "RESET", "reset", TRUE, FALSE>>,
      <<"REMOVE", "REMOVE", "remove", TRUE, FALSE>>,
      <<"USD", "USD", "usd", TRUE, FALSE>>,
      <<"usd", "USD", "usd", TRUE, FALSE>>,
      <<"JPY", "JPY", "jpy", TRUE, FALSE>>,
      <<"XXX", "XXX", "xxx", TRUE, FALSE>>,
      <<"spot_buying_rate", "SPOT_BUYING_RATE", "spot_buying_rate", TRUE, FALSE>>,
      <<"Spot_Buying_Rate", "SPOT_BUYING_RATE", "spot_buying_rate", TRUE, FALSE>>,
      <<"cash_buying_rate", "CASH_BUYING_RATE", "cash_buying_rate", TRUE, FALSE>>,
      <<"bogus_rate", "BOGUS_RATE", "bogus_rate", TRUE, FALSE>>,
      <<"time", "TIME", "time", TRUE, FALSE>>,
      <<"min", "MIN", "min", TRUE, FALSE>>,
      <<"MIN", "MIN", "min", TRUE, FALSE>>,
      <<"max", "MAX", "max", TRUE, FALSE>>,
      <<"maximum", "MAXIMUM", "maximum", TRUE, FALSE>>,
      <<"thanks", "THANKS", "thanks", TRUE, FALSE>>,
      <<"thanks!", "THANKS!", "thanks!", FALSE, FALSE>>,
      <<"10", "10", "10", TRUE, TRUE>>,
      <<"10.0", "10.0", "10.0", FALSE, TRUE>>,
      <<"100", "100", "100", TRUE, TRUE>>,
      <<"30", "30", "30", TRUE, TRUE>>,
      <<"1.2.3", "1.2.3", "1.2.3", FALSE, TRUE>> }

Row(tok) == CHOOSE r \in TokenTable : r[1] = tok

Upper(tok) == Row(tok)[2]

Lower(tok) == Row(tok)[3]

\* \w+ : letters, digits and underscores only
IsWord(tok) == Row(tok)[4]

\* [\d.]+
IsNumberLexeme(tok) == Row(tok)[5]

\* float() of a lexeme: <<TRUE, value>>, or <<FALSE, 0>> for ValueError
Float(tok) ==
    CASE tok = "10"   -> <<TRUE, 10>>
      [] tok = "10.0" -> <<TRUE, 10>>
      [] tok = "100"  -> <<TRUE, 100>>
      [] tok = "30"   -> <<TRUE, 30>>
      [] OTHER        -> <<FALSE, 0>>

\* KEYWORD\s+ under re.IGNORECASE, unanchored: the token ends with the keyword
EndsWithKeyword(tok, kw) ==
    CASE kw = "ADJUST" -> Upper(tok) = "ADJUST"
      [] kw = "SET"    -> Upper(tok) \in {"SET", "RESET"}
      [] kw = "REMOVE" -> Upper(tok) = "REMOVE"
      [] OTHER         -> FALSE

\* min\s+ or max\s+ : the whole token, in any case; "" when it is neither
BoundKeyword(tok) ==
    IF Lower(tok) \in {"min", "max"} THEN Lower(tok) ELSE ""

\* (min|max) at the start of a token; "" when it starts with neither
BoundPrefix(tok) ==
    CASE Lower(tok) \in {"min", "max"} -> Lower(tok)
      [] Lower(tok) = "maximum"        -> "max"
      [] OTHER                         -> ""

\* ((?:min\s+[\d.]+|max\s+[\d.]+|\s+)+), greedy: the index after the last of
\* the bounds that follow one another from index b
RECURSIVE BoundsEnd(_, _)
BoundsEnd(body, b) ==
    IF /\ b + 1 <= Len(body)
       /\ BoundKeyword(body[b]) # ""
       /\ IsNumberLexeme(body[b + 1])
    THEN BoundsEnd(body, b + 2)
    ELSE b

\* re.search(r'min\s+([\d.]+)', conditions_str): the lexeme of the first bound
\* of the kind among the tokens b..e-1, "" when there is none
RECURSIVE FirstBound(_, _, _, _)
FirstBound(body, b, e, kind) ==
    IF b >= e THEN ""
    ELSE IF BoundKeyword(body[b]) = kind THEN body[b + 1]
    ELSE FirstBound(body, b + 2, e, kind)

\* lines 277-284 and 303-310: [raised, conditions]
ParseConditions(body, b, e) ==
    LET lo == FirstBound(body, b, e, "min")
        hi == FirstBound(body, b, e, "max")
        S  == {f \in {"min", "max"} : (IF f = "min" THEN lo ELSE hi) # ""}
    IN  [raised |-> \E f \in S : ~Float(IF f = "min" THEN lo ELSE hi)[1],
         conditions |-> [f \in S |-> Float(IF f = "min" THEN lo ELSE hi)[2]]]

\* whether the ADJUST or SET pattern matches with its keyword at token i
MatchesBounded(body, i, kw) ==
    /\ i + 4 <= Len(body)
    /\ EndsWithKeyword(body[i], kw)
    /\ IsWord(body[i + 1])
    /\ IsWord(body[i + 2])
    /\ BoundsEnd(body, i + 3) > i + 3

\* whether the REMOVE pattern matches with its keyword at token i
MatchesRemove(body, i) ==
    /\ i + 3 <= Len(body)
    /\ EndsWithKeyword(body[i], "REMOVE")
    /\ IsWord(body[i + 1])
    /\ IsWord(body[i + 2])
    /\ BoundPrefix(body[i + 3]) # ""

\* lines 269-292 and 296-318: re.finditer from token i on; [raised, out]
RECURSIVE ScanBounded(_, _, _, _)
ScanBounded(body, i, kw, action) ==
    IF i > Len(body) THEN [raised |-> FALSE, out |-> <<>>]
    ELSE IF ~MatchesBounded(body, i, kw) THEN ScanBounded(body, i + 1, kw, action)
    ELSE LET e    == BoundsEnd(body, i + 3)
             c    == ParseConditions(body, i + 3, e)
             rest == ScanBounded(body, e, kw, action)
             rec  == [action |-> action,
                      currency_code |-> Upper(body[i + 1]),
                      rate_type |-> Lower(body[i + 2]),
                      conditions |-> c.conditions,
                      condition_type |-> ""]
         IN  IF c.raised THEN [raised |-> TRUE, out |-> <<>>]
             ELSE [raised |-> rest.raised,
                   out |-> IF rest.raised THEN <<>>
                           ELSE IF c.conditions = EmptyDict THEN rest.out
                           ELSE <<rec>> \o rest.out]

\* lines 321-334
RECURSIVE ScanRemove(_, _)
ScanRemove(body, i) ==
    IF i > Len(body) THEN <<>>
    ELSE IF ~MatchesRemove(body, i) THEN ScanRemove(body, i + 1)
    ELSE << [action |-> "remove",
             currency_code |-> Upper(body[i + 1]),
             rate_type |-> Lower(body[i + 2]),
             conditions |-> EmptyDict,
             condition_type |-> BoundPrefix(body[i + 3])] >>
         \o ScanRemove(body, i + 4)

\* lines 254-336: [raised, out]; raised is the ValueError of float()
ParseSetsFirst(body) ==
    LET a == ScanBounded(body, 1, "ADJUST", "adjust")
        s == ScanBounded(body, 1, "SET", "set")
    IN  IF a.raised \/ s.raised THEN [raised |-> TRUE, out |-> <<>>]
        ELSE [raised |-> FALSE, out |-> s.out \o a.out \o ScanRemove(body, 1)]

ParseAdjustmentCommands(body) ==
    LET a == ScanBounded(body, 1, "ADJUST", "adjust")
        s == ScanBounded(body, 1, "SET", "set")
    IN  IF a.raised \/ s.raised THEN [raised |-> TRUE, out |-> <<>>]
        ELSE [raised |-> FALSE, out |-> a.out \o s.out \o ScanRemove(body, 1)]

(***************************************************************************)
(* _check_inbox_for_adjustments.  The search returns the unseen messages   *)
(* from the recipient; a message whose subject is that of a reply is       *)
(* parsed and then flagged \Seen (line 226).  Any exception ends the read  *)
(* with the adjustments collected so far (lines 228-231).  A message is    *)
(* seen when the code has flagged it; what the server itself flags on a    *)
(* fetch is not modelled.                                                  *)
(***************************************************************************)
NoStop == <<0, "none">>

\* the messages from index k on; stop is where the server fails.  failed is
\* "" when the read went through, "server" when a call to the server raised
\* and "parser" when float() raised in _parse_adjustment_commands.
RECURSIVE InboxRun(_, _, _, _)
InboxRun(msgs, k, adjs, stop) ==
    IF k > Len(msgs) THEN [inbox |-> msgs, adjs |-> adjs, failed |-> ""]
    ELSE IF msgs[k].seen THEN InboxRun(msgs, k + 1, adjs, stop)
    ELSE IF stop = <<k, "fetch">>
         THEN [inbox |-> msgs, adjs |-> adjs, failed |-> "server"]
    ELSE IF ~msgs[k].reply THEN InboxRun(msgs, k + 1, adjs, stop)
    ELSE LET r == ParseAdjustmentCommands(msgs[k].body)
         IN  IF r.raised
             THEN [inbox |-> msgs, adjs |-> adjs, failed |-> "parser"]
             ELSE IF stop = <<k, "flag">>
                  THEN [inbox |-> msgs, adjs |-> adjs \o r.out,
                        failed |-> "server"]
             ELSE InboxRun([msgs EXCEPT ![k].seen = TRUE], k + 1,
                           adjs \o r.out, stop)

\* lines 196-201: login, select_folder or search raises
LoginStop == <<0, "login">>

Stops == {NoStop, LoginStop} \cup ((1..Len(inbox)) \X {"fetch", "flag"})

\* lines 511-513
CheckInbox ==
    /\ pc = "inbox"
    /\ \E stop \in Stops :
          LET r == IF stop = LoginStop
                   THEN [inbox |-> inbox, adjs |-> <<>>, failed |-> "server"]
                   ELSE InboxRun(inbox, 1, <<>>, stop)
          IN  /\ inbox' = r.inbox
              /\ adjustments' = r.adjs
              /\ parsed' = r.adjs
              /\ owner' = [j \in 1..Len(r.adjs) |-> NoCell]
              /\ events' = Append(events,
                    Event(CASE r.failed = "server" -> "mail_failed"
                            [] r.failed = "parser" -> "parse_failed"
                            [] OTHER               -> "mail"))
              /\ pc' = IF r.adjs # <<>> THEN "apply" ELSE "fetch"
    /\ pos' = 1
    /\ UNCHANGED <<file, config, config_modified, rates, alerts, cycle,
                   start, once>>

(***************************************************************************)
(* monitor(), lines 514-518: the branch on the flag.                       *)
(***************************************************************************)
\* lines 515-520: the order of the calls that follow _apply_adjustments
StageAfterCommitFirst(p) ==
    CASE p = "applied" -> "commit"
      [] p = "commit"  -> "confirm"
      [] OTHER         -> "fetch"

StageAfter(p) ==
    CASE p = "applied" -> "confirm"
      [] p = "confirm" -> "commit"
      [] OTHER         -> "fetch"

ConfirmAlways(flag) == TRUE

ShouldConfirm(flag) == flag

\* line 515
Gate ==
    /\ pc = "applied"
    /\ pc' = IF ShouldConfirm(config_modified) THEN StageAfter("applied")
             ELSE "fetch"
    /\ UNCHANGED <<file, config, adjustments, owner, pos, config_modified,
                   inbox, rates, alerts, cycle, events, parsed, start, once>>

\* lines 450-503 and 154-188: the email lists every record of the list; the
\* send may fail, which is logged
SendConfirmation ==
    /\ pc = "confirm"
    /\ IF adjustments = <<>>
       THEN UNCHANGED events
       ELSE \E sent \in BOOLEAN :
               events' = Append(events,
                   [what |-> IF sent THEN "confirm" ELSE "confirm_failed",
                    records |-> adjustments, alerts |-> <<>>])
    /\ pc' = StageAfter("confirm")
    /\ UNCHANGED <<file, config, adjustments, owner, pos, config_modified,
                   inbox, rates, alerts, cycle, parsed, start, once>>

\* lines 409-448: nothing is committed when git status is clean, which it
\* cannot be when the file holds other conditions than it did; a git
\* command may fail, which is logged
CommitConfigChanges ==
    /\ pc = "commit"
    /\ \/ /\ file = [ok |-> TRUE, currencies |-> start]
          /\ events' = Append(events, Event("commit_clean"))
       \/ \E done \in BOOLEAN :
             events' = Append(events,
                 [what |-> IF done THEN "commit" ELSE "commit_failed",
                  records |-> adjustments, alerts |-> <<>>])
    /\ pc' = StageAfter("commit")
    /\ UNCHANGED <<file, config, adjustments, owner, pos, config_modified,
                   inbox, rates, alerts, cycle, parsed, start, once>>

(***************************************************************************)
(* The rates: _fetch_exchange_rates and _parse_rates.  rates[name] holds   *)
(* the rate types whose value is not None; every entry of the real dict    *)
(* also has the key "time", a string.                                      *)
(***************************************************************************)
RateSets ==
    { ("US Dollar" :> (Cash :> 250)) @@ ("Dollar 2" :> (Spot :> 250)),
      ("US Dollar" :> ((Spot :> 5) @@ (Cash :> 250)))
         @@ ("Yen" :> ((Spot :> 20) @@ (Cash :> 5))) }

\* lines 521-527: where monitor() goes after the fetch and the parse
AfterFetchEvaluates(outcome) == "evaluate"

AfterFetch(outcome) == IF outcome = "fetch" THEN "evaluate" ELSE "done"

\* lines 520-527
FetchRates ==
    /\ pc = "fetch"
    /\ \/ /\ events' = Append(events, Event("fetch_failed"))
          /\ rates' = EmptyDict
          /\ pc' = AfterFetch("fetch_failed")
       \/ /\ events' = Append(events, Event("no_rates"))
          /\ rates' = EmptyDict
          /\ pc' = AfterFetch("no_rates")
       \/ /\ events' = Append(events, Event("fetch"))
          /\ rates' \in RateSets
          /\ pc' = AfterFetch("fetch")
    /\ UNCHANGED <<file, config, adjustments, owner, pos, config_modified,
                   inbox, alerts, cycle, parsed, start, once>>

(***************************************************************************)
(* _check_conditions and the loop of monitor() over the currencies.        *)
(***************************************************************************)
RateOrder == <<"spot_buying_rate", "cash_buying_rate",
               "spot_selling_rate", "cash_selling_rate">>

\* lines 104-106: the first entry with this name, 0 for None
FindByName(cfg, name) ==
    IF \E k \in 1..Len(cfg) : cfg[k].name = name
    THEN CHOOSE k \in 1..Len(cfg) :
            /\ cfg[k].name = name
            /\ \A m \in 1..(k-1) : cfg[m].name # name
    ELSE 0

Alert(name, rt, kind, rate, threshold) ==
    [currency |-> name, rate_type |-> rt, kind |-> kind,
     rate |-> rate, threshold |-> threshold]

\* lines 119-150: the alerts of one rate type
ConditionAlerts(name, rt, rate, condition) ==
    IF "min" \in DOMAIN condition /\ rate < condition["min"]
    THEN <<Alert(name, rt, "below_min", rate, condition["min"])>>
    ELSE IF "max" \in DOMAIN condition /\ rate > condition["max"]
    THEN <<Alert(name, rt, "above_max", rate, condition["max"])>>
    ELSE <<>>

\* lines 114-152: the rate types from the n-th of RateOrder on (a key that is
\* no rate type has no rate, line 116)
RECURSIVE CheckFrom(_, _, _, _)
CheckFrom(conditions, name, current, n) ==
    IF n > Len(RateOrder) THEN <<>>
    ELSE LET rt == RateOrder[n]
         IN  (IF rt \in DOMAIN conditions /\ rt \in DOMAIN current
              THEN ConditionAlerts(name, rt, current[rt], conditions[rt])
              ELSE <<>>)
             \o CheckFrom(conditions, name, current, n + 1)

\* lines 101-152
CheckConditions(cfg, name, rts) ==
    LET k == FindByName(cfg, name)
    IN  IF k = 0 THEN <<>>
        ELSE CheckFrom(cfg[k].conditions, name, rts[name], 1)

\* the exceptions of _check_conditions: line 111 on an entry without the key
\* "conditions" (KeyError), lines 120 and 134 on the key "time", whose rate
\* is a string (TypeError)
CheckRaises(cfg, name) ==
    LET k == FindByName(cfg, name)
    IN  /\ k # 0
        /\ \/ ~cfg[k].hasConditions
           \/ /\ "time" \in DOMAIN cfg[k].conditions
              /\ cfg[k].conditions["time"] # EmptyDict

\* lines 529-537
RECURSIVE AllAlertsStopAtMissing(_, _, _)
AllAlertsStopAtMissing(cfg, rts, n) ==
    IF n > Len(cfg) THEN <<>>
    ELSE IF cfg[n].name \notin DOMAIN rts THEN <<>>
    ELSE CheckConditions(cfg, cfg[n].name, rts)
         \o AllAlertsStopAtMissing(cfg, rts, n + 1)

RECURSIVE AllAlerts(_, _, _)
AllAlerts(cfg, rts, n) ==
    IF n > Len(cfg) THEN <<>>
    ELSE (IF cfg[n].name \in DOMAIN rts
          THEN CheckConditions(cfg, cfg[n].name, rts) ELSE <<>>)
         \o AllAlerts(cfg, rts, n + 1)

\* lines 105 and 530: the currencies the evaluation reads
EvaluatedConfigAsLoaded == start

EvaluatedConfig == config

Evaluate ==
    /\ pc = "evaluate"
    /\ LET cfg == EvaluatedConfig
       IN  IF \E n \in 1..Len(cfg) :
                 cfg[n].name \in DOMAIN rates /\ CheckRaises(cfg, cfg[n].name)
           THEN /\ pc' = "crashed"
                /\ UNCHANGED alerts
                /\ events' = Append(events, Event("evaluate_raised"))
           ELSE /\ pc' = "notify"
                /\ alerts' = AllAlerts(cfg, rates, 1)
                /\ events' = Append(events, Event("evaluate"))
    /\ UNCHANGED <<file, config, adjustments, owner, pos, config_modified,
                   inbox, rates, cycle, parsed, start, once>>

\* lines 539-560
Notify ==
    /\ pc = "notify"
    /\ IF alerts = <<>>
       THEN UNCHANGED events
       ELSE \E sent \in BOOLEAN :
               events' = Append(events,
                   [what |-> IF sent THEN "alert" ELSE "alert_failed",
                    records |-> <<>>, alerts |-> alerts])
    /\ pc' = "done"
    /\ UNCHANGED <<file, config, adjustments, owner, pos, config_modified,
                   inbox, rates, alerts, cycle, parsed, start, once>>

(***************************************************************************)
(* The next run of the script: __init__ loads config.yaml (lines 27-57);   *)
(* a file that does not load ends the process with status 1.               *)
(***************************************************************************)
NewCycle ==
    /\ pc \in {"done", "crashed"}
    /\ cycle < MaxCycles
    /\ cycle' = cycle + 1
    /\ IF file.ok
       THEN /\ config' = file.currencies
            /\ start' = file.currencies
            /\ pc' = "inbox"
       ELSE /\ config' = <<>>
            /\ start' = <<>>
            /\ pc' = "exit"
    /\ adjustments' = <<>>
    /\ parsed' = <<>>
    /\ owner' = <<>>
    /\ pos' = 1
    /\ config_modified' = FALSE
    /\ rates' = EmptyDict
    /\ alerts' = <<>>
    /\ events' = <<>>
    /\ UNCHANGED <<file, inbox, once>>

(***************************************************************************)
(* The mailbox of the recipient's replies.                                 *)
(***************************************************************************)
Msg(body, reply) == [body |-> body, reply |-> reply, seen |-> FALSE]

Messages ==
    { Msg(<<"adjust", "usd", "Spot_Buying_Rate", "MIN", "10.0", "max", "100",
            "thanks!">>, TRUE),
      Msg(<<"ADJUST", "XXX", "spot_buying_rate", "min", "30",
            "REMOVE", "USD", "cash_buying_rate", "min",
            "ADJUST", "XXX", "cash_buying_rate", "min", "10">>, TRUE),
      Msg(<<"thanks", "REMOVE", "USD", "cash_buying_rate", "maximum",
            "RESET", "JPY", "spot_buying_rate", "max", "10", "min", "30",
            "ADJUST", "USD", "bogus_rate", "min", "10">>, TRUE),
      Msg(<<"ADJUST", "JPY", "time", "max", "30">>, TRUE),
      Msg(<<"ADJUST", "JPY", "spot_buying_rate", "max", "1.2.3",
            "REMOVE", "USD", "spot_buying_rate", "min">>, TRUE),
      Msg(<<"SET", "USD", "spot_buying_rate", "min", "30">>, FALSE) }

Inboxes == UNION { [1..n -> Messages] : n \in 0..MaxMsgs }

Init ==
    /\ file \in { [ok |-> TRUE, currencies |-> c] : c \in Configs }
    /\ config = file.currencies
    /\ start = file.currencies
    /\ inbox \in Inboxes
    /\ adjustments = <<>>
    /\ parsed = <<>>
    /\ owner = <<>>
    /\ pos = 1
    /\ config_modified = FALSE
    /\ pc = "inbox"
    /\ rates = EmptyDict
    /\ alerts = <<>>
    /\ cycle = 1
    /\ events = <<>>
    /\ once = NotYet

Next ==
    \/ CheckInbox
    \/ ApplyStep
    \/ FinishApply
    \/ Gate
    \/ SendConfirmation
    \/ CommitConfigChanges
    \/ FetchRates
    \/ Evaluate
    \/ Notify
    \/ NewCycle

Spec == Init /\ [][Next]_vars

(***************************************************************************)
(* Vocabulary of the properties.                                           *)
(***************************************************************************)
Fields == {"min", "max"}

\* the rate types that occur as keys anywhere
AllRateKeys == RateTypes \cup {parsed[j].rate_type : j \in 1..Len(parsed)}

Resolves(code) == \E k \in 1..Len(start) : start[k].code = code

FirstIndex(code) ==
    CHOOSE k \in 1..Len(start) :
        /\ start[k].code = code
        /\ \A m \in 1..(k-1) : start[m].code # code

\* the Condition of a cell of a configuration, the empty dict when it has none
CellCond(cfg, k, rt) ==
    IF cfg[k].hasConditions /\ rt \in DOMAIN cfg[k].conditions
    THEN cfg[k].conditions[rt]
    ELSE EmptyDict

HasCell(cfg, k, rt) == cfg[k].hasConditions /\ rt \in DOMAIN cfg[k].conditions

\* a field of a Condition as [present, value]
FieldOf(cond, f) ==
    IF f \in DOMAIN cond THEN [present |-> TRUE, value |-> cond[f]]
    ELSE [present |-> FALSE, value |-> 0]

\* the number of mutations of the list that the loop has gone through
Applied == IF pc = "apply" THEN pos - 1 ELSE Len(parsed)

\* whether a mutation decides field f of its cell, and what it makes of it
Touches(m, f) ==
    CASE m.action = "adjust" -> f \in DOMAIN m.conditions
      [] m.action = "set"    -> TRUE
      [] m.action = "remove" -> m.condition_type = f
      [] OTHER               -> FALSE

FieldOutcome(m, f) ==
    IF m.action = "remove" THEN [present |-> FALSE, value |-> 0]
    ELSE FieldOf(m.conditions, f)

Touchers(n, k, rt, f) ==
    { j \in 1..n : /\ Resolves(parsed[j].currency_code)
                   /\ FirstIndex(parsed[j].currency_code) = k
                   /\ parsed[j].rate_type = rt
                   /\ Touches(parsed[j], f) }

MaxOf(S) == CHOOSE x \in S : \A y \in S : y <= x

\* field f of cell <<k, rt>> after the first n mutations, by its last writer
FieldAfter(n, k, rt, f) ==
    IF Touchers(n, k, rt, f) = {}
    THEN FieldOf(CellCond(start, k, rt), f)
    ELSE FieldOutcome(parsed[MaxOf(Touchers(n, k, rt, f))], f)

\* the single-mutation semantics on a configuration value, and its fold
ApplyOne(cfg, adj) ==
    LET k == FindCurrency(cfg, adj.currency_code)
    IN  IF k = 0 THEN cfg
        ELSE LET conds == EnsureConditions(cfg[k], adj.rate_type)
             IN  [cfg EXCEPT
                     ![k].hasConditions = TRUE,
                     ![k].conditions =
                         Put(conds, adj.rate_type,
                             NewCondition(adj, conds[adj.rate_type]))]

RECURSIVE FoldApply(_, _)
FoldApply(cfg, adjs) ==
    IF adjs = <<>> THEN cfg
    ELSE FoldApply(ApplyOne(cfg, Head(adjs)), Tail(adjs))

\* the step of the loop that is about to apply a mutation of the given kind
\* to an entry that its code resolves to
AtResolved(action) ==
    /\ pc = "apply"
    /\ pos <= Len(adjustments)
    /\ adjustments[pos].action = action
    /\ Resolves(adjustments[pos].currency_code)

CurK == FirstIndex(adjustments[pos].currency_code)
CurRt == adjustments[pos].rate_type


UsdSpot(cfg) == CellCond(cfg, FirstIndex("USD"), Spot)

NoEmptyCondition(cfg) ==
    \A k \in 1..Len(cfg) :
        cfg[k].hasConditions =>
            \A rt \in DOMAIN cfg[k].conditions : cfg[k].conditions[rt] # EmptyDict

(***************************************************************************)
(* C1: after _apply_adjustments has gone through a list, starting from a   *)
(* configuration without an empty Condition, no conditions map holds a     *)
(* rate type whose Condition has neither min nor max.                      *)
(***************************************************************************)
C1_NoEmptyConditionAfterApply ==
    (pc = "applied" /\ NoEmptyCondition(start)) => NoEmptyCondition(config)

(***************************************************************************)
(* C2 as stated: the flag is false exactly when the list is empty or every *)
(* mutation of it has a code that resolves to no entry.                    *)
(***************************************************************************)
C2_FalseOnlyWhenAllUnresolved ==
    pc = "applied" =>
        (~config_modified <=>
            \A j \in 1..Len(parsed) : ~Resolves(parsed[j].currency_code))

\* a mutation that sets the flag: its code resolves, and it is an adjust, a
\* set, or a remove of a field that is there when the loop reaches it
Effective(j) ==
    /\ Resolves(parsed[j].currency_code)
    /\ \/ parsed[j].action \in {"adjust", "set"}
       \/ /\ parsed[j].action = "remove"
          /\ FieldAfter(j - 1, FirstIndex(parsed[j].currency_code),
                        parsed[j].rate_type, parsed[j].condition_type).present

(***************************************************************************)
(* C2 as amended: the flag is true exactly when the list holds a mutation  *)
(* whose code resolves and which is an adjust, a set, or a remove of a     *)
(* field present in the Condition when the mutation is reached.            *)
(***************************************************************************)
C2_FlagIffEffective ==
    pc = "applied" =>
        (config_modified <=> \E j \in 1..Len(parsed) : Effective(j))

C2_Witness ==
    /\ pc = "applied"
    /\ ~config_modified
    /\ \E j \in 1..Len(parsed) :
          Resolves(parsed[j].currency_code) /\ parsed[j].action = "remove"
    /\ \E j \in 1..Len(parsed) : ~Resolves(parsed[j].currency_code)

C5_AdjustStep ==
    AtResolved("adjust") =>
        LET old   == CellCond(config, CurK, CurRt)
            patch == parsed[pos].conditions
            new   == CellCond(config', CurK, CurRt)
        IN  /\ HasCell(config', CurK, CurRt)
            /\ \A f \in Fields :
                  FieldOf(new, f) =
                     IF f \in DOMAIN patch THEN FieldOf(patch, f)
                     ELSE FieldOf(old, f)

C5_ExampleCase ==
    /\ Applied = 2
    /\ parsed[1] = Set("USD", Spot, Cond({"max"}, 0, 100))
    /\ parsed[2] = Adjust("USD", Spot, Cond({"min"}, 10, 0))

(***************************************************************************)
(* C5: an adjust on a resolved code overwrites exactly the fields of its   *)
(* patch and leaves the other field of the Condition as it was; set        *)
(* {max:100} then adjust {min:10} yields {min:10, max:100}.                *)
(***************************************************************************)
C5_AdjustMerges ==
    [][/\ C5_AdjustStep
       /\ C5_ExampleCase' => UsdSpot(config') = Cond({"min", "max"}, 10, 100)]_vars

C5_Witness ==
    /\ C5_ExampleCase
    /\ UsdSpot(start) # Cond({"min", "max"}, 10, 100)
    /\ UsdSpot(config) = Cond({"min", "max"}, 10, 100)

(***************************************************************************)
(* C6: a set on a resolved code makes the Condition exactly the            *)
(* replacement it was parsed with; a bound configured before and absent    *)
(* from the replacement is absent afterwards.                              *)
(***************************************************************************)
C6_SetReplaces ==
    [][AtResolved("set") =>
          /\ HasCell(config', CurK, CurRt)
          /\ CellCond(config', CurK, CurRt) = parsed[pos].conditions]_vars

C6_Witness ==
    /\ Applied = 1
    /\ parsed[1].action = "set"
    /\ Resolves(parsed[1].currency_code)
    /\ LET k  == FirstIndex(parsed[1].currency_code)
           rt == parsed[1].rate_type
       IN  \E f \in Fields :
              /\ f \in DOMAIN CellCond(start, k, rt)
              /\ f \notin DOMAIN parsed[1].conditions
              /\ f \notin DOMAIN CellCond(config, k, rt)

C7_RemoveStep ==
    (AtResolved("remove")
        /\ adjustments[pos].condition_type \in DOMAIN CellCond(config, CurK, CurRt))
    =>  LET old == CellCond(config, CurK, CurRt)
            ct  == adjustments[pos].condition_type
            new == CellCond(config', CurK, CurRt)
        IN  /\ ct \notin DOMAIN new
            /\ \A f \in Fields \ {ct} : FieldOf(new, f) = FieldOf(old, f)

C7_ExampleCase ==
    /\ Applied = 1
    /\ parsed[1] = Remove("USD", Spot, "min")
    /\ UsdSpot(start) = Cond({"min", "max"}, 10, 100)

(***************************************************************************)
(* C7: a remove of a field that is present deletes that key and leaves the *)
(* other field as it was; remove min on {min:10, max:100} yields {max:100}.*)
(***************************************************************************)
C7_RemoveDeletesField ==
    [][/\ C7_RemoveStep
       /\ C7_ExampleCase' => UsdSpot(config') = Cond({"max"}, 0, 100)]_vars

C7_Witness == C7_ExampleCase /\ DOMAIN UsdSpot(config) = {"max"}

ResolvedMutation(m) == Resolves(m.currency_code)

C8_SkipStep ==
    (pc = "apply" /\ pos <= Len(adjustments)
        /\ ~Resolves(adjustments[pos].currency_code))
    =>  /\ config' = config
        /\ config_modified' = config_modified
        /\ adjustments' = adjustments
        /\ pos' = pos + 1

(***************************************************************************)
(* C8: a mutation whose code matches no entry changes nothing, and the     *)
(* list gives the result it gives without its unresolved mutations.        *)
(***************************************************************************)
C8_UnresolvedSkipped ==
    [][/\ C8_SkipStep
       /\ pc' = "applied" =>
             config' = FoldApply(start, SelectSeq(parsed, ResolvedMutation))]_vars

C8_Witness ==
    /\ pc = "applied"
    /\ Len(parsed) = 3
    /\ Resolves(parsed[1].currency_code)
    /\ ~Resolves(parsed[2].currency_code)
    /\ Resolves(parsed[3].currency_code)
    /\ FoldApply(start, <<parsed[1]>>) # start
    /\ config # FoldApply(start, <<parsed[1]>>)

(***************************************************************************)
(* C10: the mutations are applied in list order: the configuration is the  *)
(* left-to-right fold of the single-mutation semantics over the mutations  *)
(* gone through, and each field is what the last mutation that touches it  *)
(* makes of it.                                                            *)
(***************************************************************************)
C10_InListOrder ==
    /\ config = FoldApply(start, SubSeq(parsed, 1, Applied))
    /\ \A k \in 1..Len(config) : \A rt \in AllRateKeys : \A f \in Fields :
          FieldOf(CellCond(config, k, rt), f) = FieldAfter(Applied, k, rt, f)

C10_Witness ==
    /\ pc = "applied"
    /\ \E a, b \in 1..Len(parsed) : \E f \in Fields :
          /\ a < b
          /\ Resolves(parsed[a].currency_code)
          /\ Resolves(parsed[b].currency_code)
          /\ FirstIndex(parsed[a].currency_code) = FirstIndex(parsed[b].currency_code)
          /\ parsed[a].rate_type = parsed[b].rate_type
          /\ Touches(parsed[a], f) /\ Touches(parsed[b], f)
          /\ b = MaxOf(Touchers(Len(parsed), FirstIndex(parsed[b].currency_code),
                                parsed[b].rate_type, f))
          /\ FieldOutcome(parsed[a], f) # FieldOutcome(parsed[b], f)
          /\ FieldOf(CellCond(config, FirstIndex(parsed[b].currency_code),
                              parsed[b].rate_type), f) = FieldOutcome(parsed[b], f)


(***************************************************************************)
(* What a cycle did, read from its events.                                 *)
(***************************************************************************)
SaveEvents == {"save", "save_failed"}
ConfirmEvents == {"confirm", "confirm_failed"}
CommitEvents == {"commit", "commit_failed"}

Happened(S) == \E e \in 1..Len(events) : events[e].what \in S

AfterAdjustments == pc \in {"fetch", "evaluate", "notify", "done", "crashed"}

C3_StraightToFetch ==
    /\ (pc = "applied" /\ ~config_modified)
          => (pc' = "fetch" /\ events' = events /\ file' = file)
    /\ (pc = "inbox" /\ parsed' = <<>>)
          => (pc' = "fetch" /\ file' = file /\ ~config_modified')

(***************************************************************************)
(* C3: in a cycle the configuration save, the confirmation email and the   *)
(* audit commit happen only if _apply_adjustments reported the flag true;  *)
(* with no mutations or with the flag false none of them happens and       *)
(* control goes straight to the rate fetch.                                *)
(***************************************************************************)
C3_GatedByFlag ==
    [][/\ C3_StraightToFetch
       /\ Happened(SaveEvents \cup ConfirmEvents \cup CommitEvents
                      \cup {"commit_clean"})' => config_modified'
       /\ pc' \in {"confirm", "commit"} => config_modified']_vars

C3_Witness ==
    /\ pc = "fetch"
    /\ parsed # <<>>
    /\ ~config_modified
    /\ ~Happened(SaveEvents \cup ConfirmEvents \cup CommitEvents)
    /\ Happened({"mail"})

(***************************************************************************)
(* C4: on a no-op cycle, one whose mutations leave every currency's        *)
(* conditions as they were at its start, nothing is saved, no confirmation *)
(* is sent and nothing is committed.                                       *)
(***************************************************************************)
C4_NoOpCycleIsSilent ==
    (AfterAdjustments /\ config = start)
        => ~Happened(SaveEvents \cup ConfirmEvents \cup CommitEvents)

(***************************************************************************)
(* C9: a command whose rate type is none of the four rate types yields no  *)
(* mutation, and every key of every conditions map is one of the four.     *)
(***************************************************************************)
C9_OnlyEnumeratedRateTypes ==
    /\ \A j \in 1..Len(parsed) : parsed[j].rate_type \in RateTypes
    /\ \A k \in 1..Len(config) : DOMAIN config[k].conditions \subseteq RateTypes

(***************************************************************************)
(* Where a command stands in the text of a message.                        *)
(***************************************************************************)
KindRank(action) ==
    CASE action = "adjust" -> 1
      [] action = "set"    -> 2
      [] action = "remove" -> 3
      [] OTHER             -> 4

Keyword(action) ==
    CASE action = "adjust" -> "ADJUST"
      [] action = "set"    -> "SET"
      [] OTHER             -> "REMOVE"

\* whether the text has, with its keyword at token i, the command that the
\* record stands for
IsAt(body, i, rec) ==
    /\ i + 2 <= Len(body)
    /\ rec.currency_code = Upper(body[i + 1])
    /\ rec.rate_type = Lower(body[i + 2])
    /\ IF rec.action = "remove"
       THEN /\ MatchesRemove(body, i)
            /\ rec.condition_type = BoundPrefix(body[i + 3])
       ELSE /\ MatchesBounded(body, i, Keyword(rec.action))
            /\ rec.conditions =
                  ParseConditions(body, i + 3, BoundsEnd(body, i + 3)).conditions

Appears(body, rec) == \E i \in 1..Len(body) : IsAt(body, i, rec)

FirstAt(body, rec) ==
    CHOOSE i \in 1..Len(body) :
        IsAt(body, i, rec) /\ \A m \in 1..(i - 1) : ~IsAt(body, m, rec)

GroupedByKind(out) ==
    \A a, b \in 1..Len(out) :
        a < b => KindRank(out[a].action) <= KindRank(out[b].action)

InTextOrderWithinKind(body, out) ==
    /\ \A a \in 1..Len(out) : Appears(body, out[a])
    /\ \A a, b \in 1..Len(out) :
          (a < b /\ out[a].action = out[b].action)
             => FirstAt(body, out[a]) <= FirstAt(body, out[b])

\* the record of the command whose keyword is at token i
CommandAt(body, i, action) ==
    [action |-> action,
     currency_code |-> Upper(body[i + 1]),
     rate_type |-> Lower(body[i + 2]),
     conditions |->
        IF action = "remove" THEN EmptyDict
        ELSE ParseConditions(body, i + 3, BoundsEnd(body, i + 3)).conditions,
     condition_type |->
        IF action = "remove" THEN BoundPrefix(body[i + 3]) ELSE ""]

\* a command at token i all of whose numbers are decimals
WellFormedAt(body, i, action) ==
    IF action = "remove" THEN MatchesRemove(body, i)
    ELSE /\ MatchesBounded(body, i, Keyword(action))
         /\ ~ParseConditions(body, i + 3, BoundsEnd(body, i + 3)).raised

WellFormedCommands(body) ==
    { CommandAt(body, i, action) :
        <<i, action>> \in { x \in (1..Len(body)) \X {"adjust", "set", "remove"} :
                               WellFormedAt(body, x[1], x[2]) } }

\* the state in which the list of a mailbox read is handed to the applier
JustRead == pc = "apply" /\ pos = 1

(***************************************************************************)
(* C11: for one message the parser returns the ADJUST mutations, then the  *)
(* SET mutations, then the REMOVE mutations, however the kinds are         *)
(* interleaved in the text, and the mutations of one kind in the order in  *)
(* which their commands appear in the text.                                *)
(***************************************************************************)
C11_GroupedByKindInTextOrder ==
    JustRead =>
        /\ \A k \in 1..Len(inbox) :
              LET r == ParseAdjustmentCommands(inbox[k].body)
              IN  ~r.raised =>
                     /\ GroupedByKind(r.out)
                     /\ InTextOrderWithinKind(inbox[k].body, r.out)
        /\ (cycle = 1 /\ Len(inbox) = 1 /\ inbox[1].seen)
              => parsed = ParseAdjustmentCommands(inbox[1].body).out

\* one message read, whose commands are ADJUST, REMOVE, ADJUST in the text
C11_Witness ==
    /\ JustRead
    /\ cycle = 1 /\ Len(inbox) = 1 /\ inbox[1].seen
    /\ Len(parsed) = 3
    /\ parsed[1].action = "adjust" /\ parsed[2].action = "adjust"
    /\ parsed[3].action = "remove"
    /\ parsed[1] # parsed[2]
    /\ FirstAt(inbox[1].body, parsed[1]) < FirstAt(inbox[1].body, parsed[3])
    /\ FirstAt(inbox[1].body, parsed[3]) < FirstAt(inbox[1].body, parsed[2])

(***************************************************************************)
(* C12: a bound with a malformed number makes the parser skip that one     *)
(* match: parsing raises no error, and when no call to the mail server     *)
(* fails every well-formed command of every unread reply is returned.      *)
(***************************************************************************)
C12_MalformedNumberSkipsOneMatch ==
    /\ ~Happened({"parse_failed"})
    /\ (cycle = 1 /\ pc # "inbox" /\ ~Happened({"mail_failed"})) =>
          \A k \in 1..Len(inbox) :
              inbox[k].reply =>
                 \A rec \in WellFormedCommands(inbox[k].body) :
                    \E j \in 1..Len(parsed) : parsed[j] = rec

(***************************************************************************)
(* What the evaluator reported.                                            *)
(***************************************************************************)
HasAlert(name, rt, kind) ==
    \E a \in 1..Len(alerts) :
        /\ alerts[a].currency = name
        /\ alerts[a].rate_type = rt
        /\ alerts[a].kind = kind

\* the entries the loop of monitor() hands to the evaluator
Observed == { n \in 1..Len(config) : config[n].name \in DOMAIN rates }

(***************************************************************************)
(* C13: for every rate type with a Condition and an observed value the two *)
(* bounds are checked independently: there is a below-minimum alert        *)
(* exactly when min is present and the rate is below it, and an            *)
(* above-maximum alert exactly when max is present and the rate is above   *)
(* it, also when min > max.                                                *)
(***************************************************************************)
C13_BoundsCheckedIndependently ==
    pc = "notify" =>
        \A n \in Observed :
            LET name == config[n].name
                k    == FindByName(config, name)
            IN  \A rt \in (DOMAIN config[k].conditions) \cap (DOMAIN rates[name]) :
                    LET cond == config[k].conditions[rt]
                        rate == rates[name][rt]
                    IN  /\ HasAlert(name, rt, "below_min")
                             <=> ("min" \in DOMAIN cond /\ rate < cond["min"])
                        /\ HasAlert(name, rt, "above_max")
                             <=> ("max" \in DOMAIN cond /\ rate > cond["max"])

\* the alert the code gives for a rate against a Condition: "" for none
DueAlert(cond, rate) ==
    IF "min" \in DOMAIN cond /\ rate < cond["min"] THEN "below_min"
    ELSE IF "max" \in DOMAIN cond /\ rate > cond["max"] THEN "above_max"
    ELSE ""

(***************************************************************************)
(* C14: an entry whose name is not among the observed rates and a rate     *)
(* type whose observed value is null give no alert and no error: the       *)
(* evaluation raises only on an observed entry, no alert names an          *)
(* unobserved currency or a null rate, and every other entry and rate type *)
(* has the alert that is due to it.                                        *)
(***************************************************************************)
C14_UnobservedAndNullSkipped ==
    /\ pc = "crashed" => \E n \in Observed : CheckRaises(config, config[n].name)
    /\ pc = "notify" =>
          /\ \A a \in 1..Len(alerts) :
                /\ alerts[a].currency \in DOMAIN rates
                /\ alerts[a].rate_type \in DOMAIN rates[alerts[a].currency]
          /\ \A n \in Observed :
                LET name == config[n].name
                    k    == FindByName(config, name)
                IN  \A rt \in (DOMAIN config[k].conditions)
                                 \cap (DOMAIN rates[name]) :
                        LET due == DueAlert(config[k].conditions[rt],
                                            rates[name][rt])
                        IN  due # "" => HasAlert(name, rt, due)

\* an entry without rates (and without the key "conditions") before an entry
\* that alerts, and a rate type without a rate before one that alerts
C14_Witness ==
    /\ pc = "notify"
    /\ \E n, m \in 1..Len(config) :
          /\ n < m
          /\ n \notin Observed /\ ~config[n].hasConditions
          /\ m \in Observed
          /\ \E rt \in RateTypes : HasAlert(config[m].name, rt, "above_max")
    /\ \E n \in Observed :
          /\ Spot \in DOMAIN config[n].conditions
          /\ config[n].conditions[Spot] # EmptyDict
          /\ Spot \notin DOMAIN rates[config[n].name]
          /\ HasAlert(config[n].name, Cash, "above_max")

MailFailures == {"mail_failed", "parse_failed"}

(***************************************************************************)
(* C15: in a cycle whose mailbox read failed no mutation is applied,       *)
(* saved, confirmed or committed: the configuration stays as loaded and    *)
(* the cycle has no save, confirmation or commit.                          *)
(***************************************************************************)
C15_MailFailureSkipsAdjustments ==
    Happened(MailFailures) =>
        /\ config = start
        /\ pc # "apply"
        /\ ~Happened(SaveEvents \cup ConfirmEvents \cup CommitEvents
                         \cup {"commit_clean"})

FetchFailures == {"fetch_failed", "no_rates"}

EvaluationEvents == {"evaluate", "evaluate_raised", "alert", "alert_failed"}

(***************************************************************************)
(* C16: when the rate fetch fails or the page yields no rates the cycle    *)
(* ends there: nothing is evaluated and no alert email is sent, while what *)
(* the cycle applied stays in the configuration and what it saved stays in *)
(* the file.                                                               *)
(***************************************************************************)
C16_FetchFailureEndsCycle ==
    Happened(FetchFailures) =>
        /\ pc = "done"
        /\ alerts = <<>>
        /\ ~Happened(EvaluationEvents)
        /\ config = FoldApply(start, parsed)
        /\ Happened({"save"}) => file = [ok |-> TRUE, currencies |-> config]

C16_Witness ==
    /\ pc = "done"
    /\ Happened(FetchFailures)
    /\ Happened({"save"})
    /\ config # start
    /\ file.currencies = config

\* the stage of the cycle an event belongs to
StageRank(what) ==
    CASE what \in {"mail"} \cup MailFailures            -> 1
      [] what \in SaveEvents                            -> 2
      [] what \in ConfirmEvents                         -> 3
      [] what \in CommitEvents \cup {"commit_clean"}     -> 4
      [] what \in {"fetch"} \cup FetchFailures           -> 5
      [] what \in {"evaluate", "evaluate_raised"}       -> 6
      [] OTHER                                          -> 7

(***************************************************************************)
(* C17: within a cycle the stages come in the order mailbox read (with the *)
(* parse), apply, save, confirmation email, audit commit, rate fetch,      *)
(* evaluation, alert email, each at most once: the cycle begins with the   *)
(* read, the mutations are applied after it and before every other stage,  *)
(* and of two stages that happened the earlier in this order came first.   *)
(***************************************************************************)
C17_StagesInOrder ==
    /\ \A a, b \in 1..Len(events) :
          a < b => StageRank(events[a].what) < StageRank(events[b].what)
    /\ pc = "apply" => \A e \in 1..Len(events) : StageRank(events[e].what) = 1
    /\ pc \notin {"inbox", "exit"}
          => (events # <<>> /\ StageRank(events[1].what) = 1)

C17_Witness ==
    /\ pc = "done"
    /\ Len(events) = 7
    /\ [e \in 1..7 |-> events[e].what]
          = <<"mail", "save", "confirm", "commit", "fetch", "evaluate", "alert">>

\* the field of the Condition that an alert of this kind compares against
BoundOf(kind) == IF kind = "below_min" THEN "min" ELSE "max"

(***************************************************************************)
(* C18: the evaluation of a cycle reads the configuration as the mutations *)
(* of the same cycle left it: the alerts are those of the start            *)
(* configuration with the cycle's mutations applied, and the threshold of  *)
(* every alert is the bound that the last mutation touching it made, or    *)
(* the loaded bound when no mutation touched it; a removed bound gives no  *)
(* alert.                                                                  *)
(***************************************************************************)
C18_EvaluationSeesMutations ==
    pc = "notify" =>
        /\ alerts = AllAlerts(FoldApply(start, parsed), rates, 1)
        /\ \A a \in 1..Len(alerts) :
              LET k  == FindByName(start, alerts[a].currency)
                  fa == FieldAfter(Len(parsed), k, alerts[a].rate_type,
                                   BoundOf(alerts[a].kind))
              IN  fa.present /\ fa.value = alerts[a].threshold

\* an alert against a bound that a mutation of this cycle changed, and no
\* alert for a bound that a mutation of this cycle removed
C18_Witness ==
    /\ pc = "notify"
    /\ \E a \in 1..Len(alerts) :
          LET k == FindByName(start, alerts[a].currency)
              f == FieldOf(CellCond(start, k, alerts[a].rate_type),
                           BoundOf(alerts[a].kind))
          IN  f.present /\ f.value # alerts[a].threshold
    /\ \E n \in Observed : \E rt \in DOMAIN rates[config[n].name] :
          LET due == DueAlert(CellCond(start, n, rt), rates[config[n].name][rt])
          IN  /\ due # ""
              /\ ~HasAlert(config[n].name, rt, due)
              /\ \E j \in 1..Len(parsed) :
                    /\ parsed[j].action = "remove"
                    /\ parsed[j].rate_type = rt
                    /\ parsed[j].condition_type = BoundOf(due)

(***************************************************************************)
(* C19: the confirmation email and the commit message hold one record for  *)
(* each mutation that was applied and none for a mutation that was skipped *)
(* as unresolved or that had no effect.                                    *)
(***************************************************************************)
C19_OnlyAppliedMutationsListed ==
    \A e \in 1..Len(events) :
        events[e].what \in {"confirm", "commit"} =>
            /\ Len(events[e].records) =
                  Cardinality({ j \in 1..Len(parsed) : Effective(j) })
            /\ \A r \in 1..Len(events[e].records) :
                  \E j \in 1..Len(parsed) :
                      /\ Effective(j)
                      /\ parsed[j].action = events[e].records[r].action
                      /\ parsed[j].currency_code
                            = events[e].records[r].currency_code
                      /\ parsed[j].rate_type = events[e].records[r].rate_type

(***************************************************************************)
(* C20: applying a list and then applying it again leaves the              *)
(* configuration as the first application left it.                         *)
(***************************************************************************)
C20_ApplyTwiceIsApplyOnce ==
    (pc = "applied" /\ once.done) => config = once.currencies

(***************************************************************************)
(* C21: once the configuration has loaded, a cycle completes normally: no  *)
(* exception escapes monitor().                                            *)
(***************************************************************************)
C21_CycleCompletesNormally ==
    pc # "crashed" /\ ~Happened({"evaluate_raised"})

\* the entry a mutation is for: the first one with its code
IsTarget(cfg, k, code) ==
    /\ cfg[k].code = code
    /\ \A m \in 1..(k - 1) : cfg[m].code # code

\* the conditions of an entry, except for one rate type
OtherConditions(entry, rt) ==
    [x \in (DOMAIN entry.conditions) \ {rt} |-> entry.conditions[x]]

(***************************************************************************)
(* C22: _apply_adjustments never adds, removes or reorders entries and     *)
(* never changes a name or a code; a step that changes an entry is the     *)
(* application of a mutation to the first entry with the mutation's code,  *)
(* and it leaves the other rate types of that entry as they were.          *)
(***************************************************************************)
C22_OnlyOwnConditionChanges ==
    [][/\ Len(config') = Len(config)
       /\ \A k \in 1..Len(config) :
             /\ config'[k].name = config[k].name
             /\ config'[k].code = config[k].code
             /\ config'[k] # config[k] =>
                   /\ pc = "apply"
                   /\ pos <= Len(adjustments)
                   /\ IsTarget(config, k, adjustments[pos].currency_code)
                   /\ OtherConditions(config'[k], adjustments[pos].rate_type)
                        = OtherConditions(config[k], adjustments[pos].rate_type)]_vars

\* two entries with the same code: the first changed, the second did not
C22_Witness ==
    /\ pc = "applied"
    /\ \E k, m \in 1..Len(config) :
          /\ k < m
          /\ config[k].code = config[m].code
          /\ config[k] # start[k]
          /\ config[m] = start[m]
          /\ \E rt \in DOMAIN start[k].conditions :
                /\ rt \in DOMAIN config[k].conditions
                /\ config[k].conditions[rt] = start[k].conditions[rt]
                /\ \E rt2 \in DOMAIN config[k].conditions :
                      CellCond(config, k, rt2) # CellCond(start, k, rt2)

(***************************************************************************)
(* C23: applying a list leaves its records as they were parsed: when       *)
(* _apply_adjustments has returned, every record, and so every set         *)
(* record, carries the values it was parsed with.                          *)
(***************************************************************************)
C23_RecordsUnchanged ==
    pc = "applied" => adjustments = parsed

(***************************************************************************)
(* C24: a confirmation email is sent only in a cycle whose configuration   *)
(* save succeeded; after a failed save no confirmation is sent and no      *)
(* commit is attempted.                                                    *)
(***************************************************************************)
C24_ConfirmationOnlyAfterSave ==
    /\ Happened({"confirm"}) => Happened({"save"})
    /\ Happened({"save_failed"})
          => ~Happened(ConfirmEvents \cup CommitEvents \cup {"commit_clean"})

====
